---- MODULE Spec2Model ----
(***************************************************************************)
(* Model of rust_blender_anim/src/main.rs: one run of main, which builds   *)
(* the scene script record by record (bind pose, parenting, timeline,      *)
(* camera and audio), writes it to a file and launches the renderer.       *)
(*                                                                         *)
(* Numbers are fixed point: one unit is 0.00001, so that the {:.4}         *)
(* formatting of the emitted values is a real rounding step (Fmt4).        *)
(* Names are sequences of one-character strings so that str::contains is   *)
(* a real substring test.  Option<T> is a sequence of length 0 or 1.       *)
(* The modules audio and scene are not part of the sources at hand:        *)
(* generate_audio is an external step that succeeds or fails, and          *)
(* calculate_walk_cycle follows the pose solver of the specification.      *)
(***************************************************************************)
EXTENDS Integers, Sequences, FiniteSets, TLC

\* ---- bounds of the model ------------------------------------------------
MaxFrames == 3
MaxParts == 3

\* ---- program constants (fixed point, unit 0.00001) -----------------------
ForwardSpeed == 10000
CameraLead == 800000
CameraX == 500000
CameraZ == 300000
AudioChannel == 1
AudioFrameStart == 1
GaitCycle == 4
SwingAmp == 12343

blender_paths == << "blender",
                    "/Applications/Blender.app/Contents/MacOS/Blender",
                    "/usr/bin/blender",
                    "C:\\Program Files\\Blender Foundation\\Blender 3.6\\blender.exe" >>

\* ---- names ---------------------------------------------------------------
TorsoStr == << "T", "o", "r", "s", "o" >>
HeadStr == << "H", "e", "a", "d" >>
ArmStr == << "A", "r", "m" >>
LegStr == << "L", "e", "g" >>

NamePool == { HeadStr \o << "L" >>,
              ArmStr \o HeadStr,
              LegStr \o << "R" >> }

\* str::contains
Contains(s, pat) ==
    \E i \in 0 .. (Len(s) - Len(pat)) : SubSeq(s, i + 1, i + Len(pat)) = pat

\* format!("{:.4}", v): v rounded to four decimals (a multiple of 10 units)
Fmt4(v) == ((v + 5) \div 10) * 10

Fmt4Vec(v) == << Fmt4(v[1]), Fmt4(v[2]), Fmt4(v[3]) >>

VARIABLES pc, FRAMES, rig, script, initial_objects, objects, frame, idx,
          calls, ext, file, blender_cmd, probe, result

vars == << pc, FRAMES, rig, script, initial_objects, objects, frame, idx,
           calls, ext, file, blender_cmd, probe, result >>

\* ---- the rig and the pose solver (scene module) --------------------------
Reaches(par, i, r, n) ==
    LET RECURSIVE Up(_, _)
        Up(j, k) == IF j = r THEN TRUE
                    ELSE IF k = 0 \/ j = 0 THEN FALSE
                    ELSE Up(par[j], k - 1)
    IN  Up(i, n)

\* every well-formed rig of at most MaxParts parts: one root named Torso,
\* unique names, every parent a part of the rig, the parent graph a tree
Rigs ==
    UNION { { [ i \in 1 .. n |->
                  [ name |-> nm[i],
                    parent |-> IF par[i] = 0 THEN << >> ELSE << nm[par[i]] >>,
                    bind |-> << 30000 * (i - 1), IF par[i] = 0 THEN 12343 ELSE 20000 * i,
                                100000 + 1111 * i >>,
                    scale |-> << 100000, 50000, 100000 + 10000 * i >>,
                    phase |-> 2 * (i % 2) ] ] :
              <<par, nm>> \in
                { pn \in [1 .. n -> 0 .. n] \X [1 .. n -> NamePool \cup {TorsoStr}] :
                    /\ Cardinality({ i \in 1 .. n : pn[1][i] = 0 }) = 1
                    /\ \A i \in 1 .. n : pn[1][i] # i
                    /\ \A i \in 1 .. n :
                         Reaches(pn[1], i, CHOOSE r \in 1 .. n : pn[1][r] = 0, n)
                    /\ \A i \in 1 .. n : (pn[2][i] = TorsoStr) <=> (pn[1][i] = 0)
                    /\ \A i, j \in 1 .. n : pn[2][i] = pn[2][j] => i = j } } :
            n \in 1 .. MaxParts }

\* one period of the gait, sampled at GaitCycle frames
Wave(f) == CASE f % GaitCycle = 1 -> 1
             [] f % GaitCycle = 3 -> -1
             [] OTHER -> 0

calculate_walk_cycle(f, total_frames) ==
    [ i \in 1 .. Len(rig) |->
        LET p == rig[i] IN
        IF p.parent = << >>
        THEN [ name |-> p.name,
               location |-> << p.bind[1], p.bind[2] + f * ForwardSpeed, p.bind[3] >>,
               rotation |-> << 0, 0, (SwingAmp \div 4) * Wave(f) >>,
               scale |-> p.scale,
               parent |-> p.parent ]
        ELSE [ name |-> p.name,
               location |-> << p.bind[1], p.bind[2], p.bind[3] + (SwingAmp \div 8) * Wave(f + p.phase) >>,
               rotation |-> << SwingAmp * Wave(f + p.phase), 0, 0 >>,
               scale |-> p.scale,
               parent |-> p.parent ] ]

\* ---- records of the emitted script ----------------------------------------
\* the Python expression "mat_skin if 'Head' in obj.name else mat_blue"
PySkinOrBlue(name) == IF Contains(name, HeadStr) THEN "mat_skin" ELSE "mat_blue"

\* variant: the limb test comes before the head test
Material_LimbFirst(name) ==
    IF Contains(name, ArmStr) \/ Contains(name, LegStr)
    THEN "mat_blue"
    ELSE IF Contains(name, HeadStr) THEN "mat_skin" ELSE "mat_orange"

Material(name) ==
    IF Contains(name, HeadStr) \/ Contains(name, ArmStr) \/ Contains(name, LegStr)
    THEN PySkinOrBlue(name)
    ELSE "mat_orange"

ParentRecords(obj) ==
    IF obj.parent # << >>
    THEN << [ kind |-> "link", name |-> obj.name, parent |-> obj.parent[1] ] >>
    ELSE << >>

\* variant: the object keeps the default name of a new cube
CreationRecords_Unnamed(obj) ==
    << [ kind |-> "create",
         name |-> << "C", "u", "b", "e" >>,
         location |-> Fmt4Vec(obj.location),
         scale |-> Fmt4Vec(obj.scale),
         rotation |-> Fmt4Vec(obj.rotation),
         material |-> Material(obj.name) ] >>

\* variant: the parent is linked as soon as the object is created
CreationRecords_Interleaved(obj) ==
    << [ kind |-> "create",
         name |-> obj.name,
         location |-> Fmt4Vec(obj.location),
         scale |-> Fmt4Vec(obj.scale),
         rotation |-> Fmt4Vec(obj.rotation),
         material |-> Material(obj.name) ] >> \o ParentRecords(obj)

CreationRecords(obj) ==
    << [ kind |-> "create",
         name |-> obj.name,
         location |-> Fmt4Vec(obj.location),
         scale |-> Fmt4Vec(obj.scale),
         rotation |-> Fmt4Vec(obj.rotation),
         material |-> Material(obj.name) ] >>

\* variant: the forward offset is applied to every object
KeyframeRecords_AllWorld(obj, f) ==
    LET y_offset == f * ForwardSpeed
        loc == << obj.location[1], obj.location[2] - y_offset, obj.location[3] >>
    IN  << [ kind |-> "key", name |-> obj.name, channel |-> "location",
             frame |-> f, value |-> Fmt4Vec(loc) ],
           [ kind |-> "key", name |-> obj.name, channel |-> "rotation_euler",
             frame |-> f, value |-> Fmt4Vec(obj.rotation) ] >>

KeyframeRecords(obj, f) ==
    LET y_offset == f * ForwardSpeed
        loc == IF obj.parent = << >>
               THEN << obj.location[1], obj.location[2] - y_offset, obj.location[3] >>
               ELSE obj.location
    IN  << [ kind |-> "key", name |-> obj.name, channel |-> "location",
             frame |-> f, value |-> Fmt4Vec(loc) ],
           [ kind |-> "key", name |-> obj.name, channel |-> "rotation_euler",
             frame |-> f, value |-> Fmt4Vec(obj.rotation) ] >>

\* variant: for frame in 0..FRAMES
FrameRange_Exclusive(total) == 0 .. total - 1

\* variant: for frame in 0..=FRAMES + 1
FrameRange_Beyond(total) == 0 .. total + 1

\* for frame in 0..=FRAMES
FrameRange(total) == 0 .. total

\* Python range(0, stop), in order
PyRange(stop) == [ i \in 1 .. stop |-> i - 1 ]

CameraCue(f) ==
    [ kind |-> "camera", frame |-> f,
      location |-> << CameraX, CameraLead - f * ForwardSpeed, CameraZ >> ]

AudioCue ==
    [ kind |-> "audio", channel |-> AudioChannel, frame_start |-> AudioFrameStart ]

CameraAudioBlock(total) ==
    LET r == PyRange(total + 1)
    IN  [ i \in 1 .. Len(r) |-> CameraCue(r[i]) ] \o << AudioCue >>

\* ---- main -----------------------------------------------------------------
Init ==
    /\ pc = "audio"
    /\ FRAMES \in 0 .. MaxFrames
    /\ rig \in Rigs
    /\ script = << >>
    /\ initial_objects = << >>
    /\ objects = << >>
    /\ frame = 0
    /\ idx = 0
    /\ calls = << >>
    /\ ext = << >>
    /\ file = [ exists |-> FALSE, content |-> << >> ]
    /\ blender_cmd = << >>
    /\ probe = 0
    /\ result = "running"

\* audio::generate_audio("audio.wav", 30)?
GenerateAudio ==
    /\ pc = "audio"
    /\ \E ok \in BOOLEAN :
         /\ ext' = Append(ext, [ op |-> "audio", path |-> 0, ok |-> ok ])
         /\ pc' = IF ok THEN "header" ELSE "done"
         /\ result' = IF ok THEN result ELSE "Err"
    /\ UNCHANGED << FRAMES, rig, script, initial_objects, objects, frame, idx,
                    calls, file, blender_cmd, probe >>

\* scene setup, materials and environment
ScriptHeader ==
    /\ pc = "header"
    /\ script' = << [ kind |-> "setup", frame_end |-> FRAMES ] >>
    /\ pc' = "bind"
    /\ UNCHANGED << FRAMES, rig, initial_objects, objects, frame, idx, calls,
                    ext, file, blender_cmd, probe, result >>

BindPose ==
    /\ pc = "bind"
    /\ initial_objects' = calculate_walk_cycle(0, FRAMES)
    /\ calls' = Append(calls, << 0, FRAMES >>)
    /\ idx' = 1
    /\ pc' = "create"
    /\ UNCHANGED << FRAMES, rig, script, objects, frame, ext, file,
                    blender_cmd, probe, result >>

CreateObject ==
    /\ pc = "create"
    /\ idx <= Len(initial_objects)
    /\ script' = script \o CreationRecords(initial_objects[idx])
    /\ idx' = idx + 1
    /\ UNCHANGED << pc, FRAMES, rig, initial_objects, objects, frame, calls,
                    ext, file, blender_cmd, probe, result >>

CreateDone ==
    /\ pc = "create"
    /\ idx > Len(initial_objects)
    /\ idx' = 1
    /\ pc' = "parent"
    /\ UNCHANGED << FRAMES, rig, script, initial_objects, objects, frame,
                    calls, ext, file, blender_cmd, probe, result >>

ParentObject ==
    /\ pc = "parent"
    /\ idx <= Len(initial_objects)
    /\ script' = script \o ParentRecords(initial_objects[idx])
    /\ idx' = idx + 1
    /\ UNCHANGED << pc, FRAMES, rig, initial_objects, objects, frame, calls,
                    ext, file, blender_cmd, probe, result >>

ParentDone ==
    /\ pc = "parent"
    /\ idx > Len(initial_objects)
    /\ frame' = 0
    /\ pc' = "anim"
    /\ UNCHANGED << FRAMES, rig, script, initial_objects, objects, idx, calls,
                    ext, file, blender_cmd, probe, result >>

AnimFrame ==
    /\ pc = "anim"
    /\ frame \in FrameRange(FRAMES)
    /\ objects' = calculate_walk_cycle(frame, FRAMES)
    /\ calls' = Append(calls, << frame, FRAMES >>)
    /\ idx' = 1
    /\ pc' = "anim_obj"
    /\ UNCHANGED << FRAMES, rig, script, initial_objects, frame, ext, file,
                    blender_cmd, probe, result >>

AnimObject ==
    /\ pc = "anim_obj"
    /\ idx <= Len(objects)
    /\ script' = script \o KeyframeRecords(objects[idx], frame)
    /\ idx' = idx + 1
    /\ UNCHANGED << pc, FRAMES, rig, initial_objects, objects, frame, calls,
                    ext, file, blender_cmd, probe, result >>

AnimFrameDone ==
    /\ pc = "anim_obj"
    /\ idx > Len(objects)
    /\ frame' = frame + 1
    /\ pc' = "anim"
    /\ UNCHANGED << FRAMES, rig, script, initial_objects, objects, idx, calls,
                    ext, file, blender_cmd, probe, result >>

AnimDone ==
    /\ pc = "anim"
    /\ frame \notin FrameRange(FRAMES)
    /\ pc' = "camera"
    /\ UNCHANGED << FRAMES, rig, script, initial_objects, objects, frame, idx,
                    calls, ext, file, blender_cmd, probe, result >>

CameraAudio ==
    /\ pc = "camera"
    /\ script' = script \o CameraAudioBlock(FRAMES) \o << [ kind |-> "render_settings" ] >>
    /\ pc' = "create_file"
    /\ UNCHANGED << FRAMES, rig, initial_objects, objects, frame, idx, calls,
                    ext, file, blender_cmd, probe, result >>

\* File::create(OUTPUT_FILENAME)?
CreateFile ==
    /\ pc = "create_file"
    /\ \E ok \in BOOLEAN :
         /\ ext' = Append(ext, [ op |-> "create", path |-> 0, ok |-> ok ])
         /\ file' = IF ok THEN [ exists |-> TRUE, content |-> << >> ] ELSE file
         /\ pc' = IF ok THEN "write_file" ELSE "done"
         /\ result' = IF ok THEN result ELSE "Err"
    /\ UNCHANGED << FRAMES, rig, script, initial_objects, objects, frame, idx,
                    calls, blender_cmd, probe >>

\* file.write_all(script.as_bytes())?; a failed write leaves a prefix
WriteFile ==
    /\ pc = "write_file"
    /\ \E ok \in BOOLEAN :
         /\ ext' = Append(ext, [ op |-> "write", path |-> 0, ok |-> ok ])
         /\ file' = [ exists |-> TRUE,
                      content |-> IF ok THEN script ELSE SubSeq(script, 1, 1) ]
         /\ pc' = IF ok THEN "probe" ELSE "done"
         /\ probe' = IF ok THEN 1 ELSE probe
         /\ result' = IF ok THEN result ELSE "Err"
    /\ UNCHANGED << FRAMES, rig, script, initial_objects, objects, frame, idx,
                    calls, blender_cmd >>

\* variant: no break, the last path that answers wins
ProbeBlender_NoBreak ==
    /\ pc = "probe"
    /\ probe <= Len(blender_paths)
    /\ \E ok \in BOOLEAN :
         /\ ext' = Append(ext, [ op |-> "probe", path |-> probe, ok |-> ok ])
         /\ blender_cmd' = IF ok THEN << probe >> ELSE blender_cmd
         /\ probe' = probe + 1
         /\ pc' = pc
    /\ UNCHANGED << FRAMES, rig, script, initial_objects, objects, frame, idx,
                    calls, file, result >>

\* Command::new(path).arg("--version").output().is_ok(), break on the first
ProbeBlender ==
    /\ pc = "probe"
    /\ probe <= Len(blender_paths)
    /\ \E ok \in BOOLEAN :
         /\ ext' = Append(ext, [ op |-> "probe", path |-> probe, ok |-> ok ])
         /\ blender_cmd' = IF ok THEN << probe >> ELSE blender_cmd
         /\ probe' = IF ok THEN probe ELSE probe + 1
         /\ pc' = IF ok THEN "match" ELSE pc
    /\ UNCHANGED << FRAMES, rig, script, initial_objects, objects, frame, idx,
                    calls, file, result >>

ProbeExhausted ==
    /\ pc = "probe"
    /\ probe > Len(blender_paths)
    /\ pc' = "match"
    /\ UNCHANGED << FRAMES, rig, script, initial_objects, objects, frame, idx,
                    calls, ext, file, blender_cmd, probe, result >>

\* Some(blender): run it; every outcome only prints, main returns Ok(())
LaunchRender ==
    /\ pc = "match"
    /\ blender_cmd # << >>
    /\ \E outcome \in { "spawn_failed", "nonzero_exit", "success" } :
         ext' = Append(ext, [ op |-> "render", path |-> blender_cmd[1],
                              ok |-> (outcome = "success"), outcome |-> outcome,
                              input |-> file.content ])
    /\ result' = "Ok"
    /\ pc' = "done"
    /\ UNCHANGED << FRAMES, rig, script, initial_objects, objects, frame, idx,
                    calls, file, blender_cmd, probe >>

\* None: "Failed to find Blender", main returns Ok(())
NoBlender ==
    /\ pc = "match"
    /\ blender_cmd = << >>
    /\ result' = "Ok"
    /\ pc' = "done"
    /\ UNCHANGED << FRAMES, rig, script, initial_objects, objects, frame, idx,
                    calls, ext, file, blender_cmd, probe >>

Next ==
    \/ GenerateAudio
    \/ ScriptHeader
    \/ BindPose
    \/ CreateObject
    \/ CreateDone
    \/ ParentObject
    \/ ParentDone
    \/ AnimFrame
    \/ AnimObject
    \/ AnimFrameDone
    \/ AnimDone
    \/ CameraAudio
    \/ CreateFile
    \/ WriteFile
    \/ ProbeBlender
    \/ ProbeExhausted
    \/ LaunchRender
    \/ NoBlender

Spec == Init /\ [][Next]_vars

TypeOK ==
    /\ pc \in { "audio", "header", "bind", "create", "parent", "anim", "anim_obj",
                "camera", "create_file", "write_file", "probe", "match", "done" }
    /\ result \in { "running", "Ok", "Err" }
    /\ frame \in 0 .. MaxFrames + 2

\* ---- material classification on its own ----------------------------------
MaxTokens == 2

Tokens == { HeadStr, ArmStr, LegStr, TorsoStr,
            << "h", "e", "a", "d" >>, << "H", "e", "a" >>, << "d" >>,
            << "L" >>, << "_" >> }

RECURSIVE TokenNames(_)
TokenNames(k) ==
    IF k = 0 THEN { << >> }
    ELSE LET shorter == TokenNames(k - 1)
         IN  shorter \cup { n \o t : n \in shorter, t \in Tokens }

\* a run that starts at the bind pose with a rig of one part of any name
InitClassify ==
    /\ pc = "bind"
    /\ FRAMES = 0
    /\ rig \in { << [ name |-> n, parent |-> << >>,
                      bind |-> << 0, 0, 100000 >>,
                      scale |-> << 100000, 100000, 100000 >>,
                      phase |-> 0 ] >> : n \in TokenNames(MaxTokens) }
    /\ script = << [ kind |-> "setup", frame_end |-> 0 ] >>
    /\ initial_objects = << >>
    /\ objects = << >>
    /\ frame = 0
    /\ idx = 0
    /\ calls = << >>
    /\ ext = << [ op |-> "audio", path |-> 0, ok |-> TRUE ] >>
    /\ file = [ exists |-> FALSE, content |-> << >> ]
    /\ blender_cmd = << >>
    /\ probe = 0
    /\ result = "running"

NextClassify ==
    \/ BindPose
    \/ CreateObject
    \/ CreateDone

SpecClassify == InitClassify /\ [][NextClassify]_vars

\* ---- helpers of the properties --------------------------------------------
Indices(kind) == { i \in 1 .. Len(script) : script[i].kind = kind }

KindRank(kind) ==
    CASE kind = "create" -> 1
      [] kind = "link" -> 2
      [] kind = "key" -> 3
      [] kind = "camera" -> 4
      [] kind = "audio" -> 4
      [] OTHER -> 0

EventKinds == { "create", "link", "key", "camera", "audio" }

IsEvent(r) == r.kind \in EventKinds

IsKey(r) == r.kind = "key"

KeySeq == SelectSeq(script, IsKey)

KeyTag(r) == << r.frame, r.name, r.channel >>

FrameKeys(f) ==
    LET o == calculate_walk_cycle(f, FRAMES)
    IN  [ i \in 1 .. 2 * Len(o) |->
            << f, o[(i + 1) \div 2].name,
               IF i % 2 = 1 THEN "location" ELSE "rotation_euler" >> ]

RECURSIVE ExpectedKeys(_)
ExpectedKeys(f) == IF f > FRAMES THEN << >> ELSE FrameKeys(f) \o ExpectedKeys(f + 1)

\* the animation loop has run to its end
TimelineDone ==
    \/ pc \in { "camera", "create_file", "write_file", "probe", "match" }
    \/ pc = "done" /\ ext[1].ok

ScriptDone == TimelineDone /\ pc # "camera"

PoseOf(name, f) ==
    LET o == calculate_walk_cycle(f, FRAMES)
    IN  o[CHOOSE i \in 1 .. Len(o) : o[i].name = name]

\* ---- C1 -------------------------------------------------------------------
\* C1: in the emitted stream every creation record precedes every
\* parent-link record, every parent-link record precedes every keyframe
\* event, and every keyframe event precedes the camera cues and the audio cue.
C1_EmissionOrder ==
    LET events == SelectSeq(script, IsEvent)
    IN  \A i \in 1 .. Len(events) - 1 :
            \A j \in i + 1 .. Len(events) :
                KindRank(events[i].kind) <= KindRank(events[j].kind)

C1_Witness ==
    /\ pc = "done"
    /\ FRAMES >= 1
    /\ Cardinality(Indices("create")) >= 3
    /\ Cardinality(Indices("link")) >= 2
    /\ Indices("key") # {}
    /\ Indices("camera") # {}
    /\ Indices("audio") # {}

\* ---- C2 -------------------------------------------------------------------
\* C2: when a parent-link record is emitted, creation records naming its
\* parent and its child have already been emitted.
C2_LinksResolved ==
    \A j \in Indices("link") :
        /\ \E i \in Indices("create") : i < j /\ script[i].name = script[j].parent
        /\ \E i \in Indices("create") : i < j /\ script[i].name = script[j].name

\* a link whose child was created before its parent
C2_Witness ==
    \E j \in Indices("link") :
        \E c, p \in Indices("create") :
            /\ c < p
            /\ script[c].name = script[j].name
            /\ script[p].name = script[j].parent

\* ---- C3 -------------------------------------------------------------------
\* C3: the timeline holds exactly one location and one rotation keyframe per
\* frame 0..=FRAMES and part, in ascending frame order and, within a frame,
\* in the solver's output order; frame numbers never decrease on the way.
C3_Timeline ==
    LET keys == KeySeq
    IN  /\ \A i \in 1 .. Len(keys) - 1 : keys[i].frame <= keys[i + 1].frame
        /\ TimelineDone =>
              [ i \in 1 .. Len(keys) |-> KeyTag(keys[i]) ] = ExpectedKeys(0)

C3_Witness ==
    /\ pc = "camera"
    /\ FRAMES >= 2
    /\ Len(rig) >= 3
    /\ Len(KeySeq) = 2 * Len(rig) * (FRAMES + 1)

\* ---- C4 -------------------------------------------------------------------
\* C4: the root's location keyframe is the solver's location with
\* frame * forwardSpeed subtracted from y, x and z as returned; every part
\* with a parent has the solver's location; every rotation is the solver's;
\* all of them at four decimals, and at every frame of 0..=FRAMES.
C4_RootWorldLimbLocal ==
    /\ \A k \in Indices("key") :
         LET r == script[k]
             p == PoseOf(r.name, r.frame)
         IN  IF r.channel = "rotation_euler"
             THEN r.value = Fmt4Vec(p.rotation)
             ELSE IF p.parent = << >>
             THEN r.value = << Fmt4(p.location[1]),
                               Fmt4(p.location[2] - r.frame * ForwardSpeed),
                               Fmt4(p.location[3]) >>
             ELSE r.value = Fmt4Vec(p.location)
    /\ TimelineDone =>
         \A f \in 0 .. FRAMES : \A i \in 1 .. Len(rig) :
             \E k \in Indices("key") :
                 /\ script[k].frame = f
                 /\ script[k].name = rig[i].name
                 /\ script[k].channel = "location"

\* a limb with a non-zero travel component, keyed at a frame later than 0
C4_Witness ==
    \E k \in Indices("key") :
        /\ script[k].frame >= 2
        /\ script[k].channel = "location"
        /\ PoseOf(script[k].name, script[k].frame).parent # << >>
        /\ script[k].value[2] # 0
        /\ \E r \in Indices("key") :
             /\ script[r].frame = script[k].frame
             /\ script[r].channel = "location"
             /\ PoseOf(script[r].name, script[r].frame).parent = << >>

\* ---- C5 -------------------------------------------------------------------
\* C5: the difference between the camera cue's travel-axis position and the
\* root's emitted travel-axis position is the same at every frame, and the
\* camera's other two coordinates are constant.
C5_CameraFollowsRoot ==
    /\ \A c1, c2 \in Indices("camera") :
         \A k1, k2 \in Indices("key") :
            ( /\ script[k1].channel = "location"
              /\ script[k2].channel = "location"
              /\ PoseOf(script[k1].name, 0).parent = << >>
              /\ PoseOf(script[k2].name, 0).parent = << >>
              /\ script[k1].frame = script[c1].frame
              /\ script[k2].frame = script[c2].frame )
            => script[c1].location[2] - script[k1].value[2]
                 = script[c2].location[2] - script[k2].value[2]
    /\ \A c1, c2 \in Indices("camera") :
         /\ script[c1].location[1] = script[c2].location[1]
         /\ script[c1].location[3] = script[c2].location[3]

\* ---- C6 -------------------------------------------------------------------
\* C6: exactly one audio cue is emitted, on channel 1, and its start frame
\* is the smallest frame number that carries a keyframe event.
C6_AudioAtFirstFrame ==
    /\ Cardinality(Indices("audio")) <= 1
    /\ ScriptDone => Cardinality(Indices("audio")) = 1
    /\ \A a \in Indices("audio") :
         /\ script[a].channel = 1
         /\ \E k \in Indices("key") : script[k].frame = script[a].frame_start
         /\ \A k \in Indices("key") : script[k].frame >= script[a].frame_start

\* ---- C7 -------------------------------------------------------------------
ExtOps(op) == { i \in 1 .. Len(ext) : ext[i].op = op }

RendererNotFound ==
    /\ Cardinality(ExtOps("probe")) = Len(blender_paths)
    /\ \A i \in ExtOps("probe") : ~ ext[i].ok

ExternalFailure ==
    \/ \E i \in ExtOps("audio") : ~ ext[i].ok
    \/ RendererNotFound
    \/ \E i \in ExtOps("render") : ~ ext[i].ok

\* C7: when waveform generation fails, or the renderer is not found, cannot
\* be started or exits with a non-zero status, main returns an error result;
\* each external step is attempted at most once per run.
C7_FailuresReported ==
    /\ (pc = "done" /\ ExternalFailure) => result = "Err"
    /\ Cardinality(ExtOps("audio")) <= 1
    /\ Cardinality(ExtOps("render")) <= 1
    /\ \A i, j \in ExtOps("probe") : ext[i].path = ext[j].path => i = j

\* ---- C8 -------------------------------------------------------------------
\* C8: every call of the pose solver, the bind-pose call included, has a
\* frame in 0..FRAMES and totalFrames = FRAMES.
C8_SolverFramesInRange ==
    \A i \in 1 .. Len(calls) :
        /\ calls[i][1] >= 0
        /\ calls[i][1] <= FRAMES
        /\ calls[i][2] = FRAMES

\* the loop has ended after calling the solver for the last frame
C8_Witness ==
    /\ pc = "camera"
    /\ FRAMES >= 1
    /\ Len(calls) = FRAMES + 2
    /\ calls[Len(calls)][1] = FRAMES

\* ---- C9 -------------------------------------------------------------------
\* the rule of the specification, as a table
Classify(name) ==
    CASE Contains(name, HeadStr) -> "mat_skin"
      [] ~ Contains(name, HeadStr) /\ (Contains(name, ArmStr) \/ Contains(name, LegStr))
           -> "mat_blue"
      [] OTHER -> "mat_orange"

\* C9: every creation record carries exactly one material, chosen by
\* priority: Head gives skin, else Arm or Leg gives blue, else orange.
C9_MaterialByPriority ==
    \A i \in Indices("create") :
        /\ script[i].material \in { "mat_skin", "mat_blue", "mat_orange" }
        /\ script[i].material = Classify(script[i].name)

\* a name with both Arm and Head in it was given the skin material
C9_Witness ==
    \E i \in Indices("create") :
        /\ Contains(script[i].name, ArmStr)
        /\ Contains(script[i].name, HeadStr)
        /\ script[i].material = "mat_skin"

\* ---- C10 ------------------------------------------------------------------
OpRank(op) ==
    CASE op = "audio" -> 1
      [] op = "create" -> 2
      [] op = "write" -> 3
      [] op = "probe" -> 4
      [] op = "render" -> 5

ProbeSeq == SelectSeq(ext, LAMBDA e : e.op = "probe")

\* C10: the run is the pipeline audio, script, file creation, file write,
\* probes, render; a render launch has the complete script in the file; a
\* failed audio, creation or write step ends the run with an error before
\* any probe or launch, and a failed audio step before any file; the paths
\* are probed in list order up to the first that answers, which is launched.
C10_Pipeline ==
    /\ \A i, j \in 1 .. Len(ext) :
         i < j => /\ OpRank(ext[i].op) <= OpRank(ext[j].op)
                  /\ ext[i].op # "probe" => ext[i].op # ext[j].op
    /\ \A i \in ExtOps("create") : ScriptDone
    /\ \A i \in ExtOps("render") :
         /\ \E w \in ExtOps("write") : w < i /\ ext[w].ok
         /\ ext[i].input = script
         /\ script[Len(script)].kind = "render_settings"
    /\ \A i \in 1 .. Len(ext) :
         (ext[i].op \in { "audio", "create", "write" } /\ ~ ext[i].ok)
         => /\ i = Len(ext)
            /\ pc = "done"
            /\ result = "Err"
    /\ (\E i \in ExtOps("audio") : ~ ext[i].ok) => ~ file.exists
    /\ \A k \in 1 .. Len(ProbeSeq) :
         /\ ProbeSeq[k].path = k
         /\ k < Len(ProbeSeq) => ~ ProbeSeq[k].ok
    /\ \A i \in ExtOps("render") :
         /\ ProbeSeq[Len(ProbeSeq)].ok
         /\ ext[i].path = ProbeSeq[Len(ProbeSeq)].path

\* the third path answered after two that did not, and was launched
C10_Witness ==
    /\ pc = "done"
    /\ \E i \in ExtOps("render") : ext[i].path = 3
    /\ Len(ProbeSeq) = 3
====
